---------------------------- MODULE Spec2Model ----------------------------
(***************************************************************************)
(* A model of the AnD document analyser:                                   *)
(*   src/1a/main.py            the outline extractor (heading levels)      *)
(*   src/1b/pdf_utils.py       the section segmenter                       *)
(*   src/1b/optimized_utils.py the sliding-window chunker                  *)
(*   src/1b/embedding_utils.py the embedding cache and the ranker          *)
(*                                                                         *)
(* Python strings are sequences of one-character strings, so that lower(), *)
(* strip(), split(), "in" and the regular expressions are computed on      *)
(* characters.  Decimal numbers are scaled integers; the scale is named    *)
(* where the number is introduced.                                         *)
(***************************************************************************)
EXTENDS Integers, Sequences, FiniteSets, TLC

VARIABLES
    \* src/1a/main.py: PDFOutlineExtractor
    font_sizes,        \* self.font_sizes, a set of rounded sizes (1/100 pt)
    a_text_blocks,     \* self.text_blocks, a list of [size, page]
    heading_levels,    \* the last result of determine_heading_levels
    a_pc,              \* "new" | "extracted" | "levelled"
    \* src/1b/pdf_utils.py: extract_sections_from_pdf
    s_len,             \* len(doc)
    s_doc,             \* the pages loaded so far, each a list of raw spans
    page_num,          \* the loop variable of line 45 (0-based)
    text_blocks,       \* the current page's text blocks
    blk_i,             \* the loop variable of line 67 (0-based)
    current_section,   \* << >> for None, else <<section>>
    sections,          \* the list being returned
    walk_sections,     \* sections as the span walk left it (at line 112)
    s_pc,              \* "page" | "blocks" | "done"
    \* src/1b/optimized_utils.py: _process_single_pdf_global
    c_path,            \* the pdf_path of the last call, << >> before any
    c_doc,             \* the words on each page of that document
    doc_chunks,        \* the list the last call returned
    \* src/1b/embedding_utils.py: DocumentAnalyzer
    hash_seed,         \* the seed of hash() in this process
    embedding_cache,   \* self.embedding_cache, a function on the keys stored
    r_pc,              \* "fresh" | "warm" | "hot" | "ranked" | "again"
    emb_calls,         \* the get_embeddings calls of the last operation
    rank_args,         \* << >>, else <<the arguments of the rank_sections call>>
    rank_scored,       \* scored_sections of the last call, before the sort
    rank_boosts,       \* boost of the last call, per section
    rank_result,       \* the list the last call returned
    rank_first,        \* << >>, else <<what the call before the repeat gave>>
    \* src/1b/main.py: main; src/1b/pdf_utils.py: extract_sections_from_pdfs;
    \* src/1b/optimized_utils.py: process_documents
    p_entry,           \* "" | "main" | "extract_sections_from_pdfs"
                       \*    | "process_documents"
    documents,         \* the documents of the run, each [filename, kind]
    p_top_n,           \* top_n of the run
    pdf_files,         \* the list the per-document loop goes over
    p_i,               \* how many of pdf_files the loop has done
    all_sections,      \* all_sections of the loop, chunks of process_documents
    p_warnings,        \* the filenames a warning was printed for
    p_error,           \* << >>, else <<the message of the exception raised>>
    summary,           \* << >>, else <<the content of summary.json>>
    p_pc,              \* "idle" | "loop" | "done" | "failed"
    \* src/1b/optimized_utils.py: DocumentProcessor.preprocess_pdfs
    pdf_paths,         \* the paths given, numbered 1..len(pdf_paths)
    num_processes,     \* line 63
    chunk_size,        \* line 66
    w_i,               \* the loop variable i of line 69
    chunk_paths,       \* the batch of line 70
    task_queue,        \* the tasks of pool.map no worker has taken yet
    in_flight,         \* the paths the pool's workers are processing
    results,           \* the results that have come back, by path
    all_chunks,        \* line 67
    started,           \* history: the paths in the order workers took them
    w_pc,              \* "idle" | "loop" | "map" | "done"
    \* src/1b/embedding_utils.py: callers sharing the global analyzer
    analyzer_global,   \* _analyzer: 0 for None, else a place in analyzers
    analyzers,         \* the embedding_cache of each DocumentAnalyzer made
    threads            \* each caller's position and locals

aVars == <<font_sizes, a_text_blocks, heading_levels, a_pc>>

sVars == <<s_len, s_doc, page_num, text_blocks, blk_i, current_section,
           sections, walk_sections, s_pc>>

cVars == <<c_path, c_doc, doc_chunks>>

rVars == <<hash_seed, embedding_cache, r_pc, emb_calls, rank_args,
           rank_scored, rank_boosts, rank_result, rank_first>>

pVars == <<p_entry, documents, p_top_n, pdf_files, p_i, all_sections,
           p_warnings, p_error, summary, p_pc>>

wVars == <<pdf_paths, num_processes, chunk_size, w_i, chunk_paths,
           task_queue, in_flight, results, all_chunks, started, w_pc>>

tVars == <<analyzer_global, analyzers, threads>>

vars == <<aVars, sVars, cVars, rVars, pVars, wVars, tVars>>

otherThanOutline == <<sVars, cVars, rVars, pVars, wVars, tVars>>

otherThanSegmenter == <<aVars, cVars, rVars, pVars, wVars, tVars>>

otherThanChunker == <<aVars, sVars, rVars, pVars, wVars, tVars>>

otherThanRanker == <<aVars, sVars, cVars, pVars, wVars, tVars>>

otherThanPipeline == <<aVars, sVars, cVars, rVars, wVars, tVars>>

otherThanPool == <<aVars, sVars, cVars, rVars, pVars, tVars>>

otherThanThreads == <<aVars, sVars, cVars, rVars, pVars, wVars>>

----------------------------------------------------------------------------
(* Python str, as sequences of characters *)

UpperAlphabet ==
    <<"A", "B", "C", "D", "E", "F", "G", "H", "I", "J", "K", "L", "M",
      "N", "O", "P", "Q", "R", "S", "T", "U", "V", "W", "X", "Y", "Z">>

LowerAlphabet ==
    <<"a", "b", "c", "d", "e", "f", "g", "h", "i", "j", "k", "l", "m",
      "n", "o", "p", "q", "r", "s", "t", "u", "v", "w", "x", "y", "z">>

Digits == {"0", "1", "2", "3", "4", "5", "6", "7", "8", "9"}

Range(f) == {f[i] : i \in DOMAIN f}

IsUpperChar(c) == c \in Range(UpperAlphabet)

IsLowerChar(c) == c \in Range(LowerAlphabet)

IsCasedChar(c) == IsUpperChar(c) \/ IsLowerChar(c)

\* str.isspace for one character
IsSpaceChar(c) == c \in {" ", "\n", "\t"}

\* the \w class of re, on the characters the model uses
IsWordChar(c) == IsCasedChar(c) \/ c \in Digits \/ c = "_"

LowerChar(c) ==
    IF IsUpperChar(c)
    THEN LowerAlphabet[CHOOSE i \in DOMAIN UpperAlphabet : UpperAlphabet[i] = c]
    ELSE c

\* a list comprehension: the list built, element by element
List(f) == f \o << >>

\* str.lower
Lower(s) == List([i \in DOMAIN s |-> LowerChar(s[i])])

\* s[a:b] for 0 <= a, with Python's 0-based half-open indices
Slice(s, a, b) ==
    IF b <= a THEN << >>
    ELSE SubSeq(s, a + 1, IF b > Len(s) THEN Len(s) ELSE b)

\* str.startswith at offset i (0-based)
MatchAt(sub, s, i) ==
    /\ i + Len(sub) <= Len(s)
    /\ \A k \in 1..Len(sub) : s[i + k] = sub[k]

\* sub in s
Contains(sub, s) == \E i \in 0..Len(s) : MatchAt(sub, s, i)

\* str.endswith
EndsWith(s, suffix) ==
    /\ Len(suffix) <= Len(s)
    /\ MatchAt(suffix, s, Len(s) - Len(suffix))

\* str.strip
Strip(s) ==
    LET keep == {i \in DOMAIN s : ~IsSpaceChar(s[i])}
    IN  IF keep = {} THEN << >>
        ELSE LET lo == CHOOSE i \in keep : \A j \in keep : i <= j
                 hi == CHOOSE i \in keep : \A j \in keep : j <= i
             IN  SubSeq(s, lo, hi)

\* the positions where a word of s starts: a non-space after a space or at 1
WordStarts(s) ==
    {i \in DOMAIN s : ~IsSpaceChar(s[i]) /\ (i = 1 \/ IsSpaceChar(s[i - 1]))}

\* the end of the word that starts at i
WordEnd(s, i) ==
    CHOOSE j \in i..Len(s) :
        /\ \A k \in i..j : ~IsSpaceChar(s[k])
        /\ (j = Len(s) \/ IsSpaceChar(s[j + 1]))

RECURSIVE SetToSortedSeq(_)
\* the elements of a set of integers, ascending
SetToSortedSeq(S) ==
    IF S = {} THEN << >>
    ELSE LET m == CHOOSE x \in S : \A y \in S : x <= y
         IN  <<m>> \o SetToSortedSeq(S \ {m})

\* str.split(): the words between runs of whitespace
Split(s) ==
    LET starts == SetToSortedSeq(WordStarts(s))
    IN  [k \in DOMAIN starts |-> SubSeq(s, starts[k], WordEnd(s, starts[k]))]

RECURSIVE Join(_, _)
\* sep.join(words)
Join(sep, words) ==
    IF words = << >> THEN << >>
    ELSE IF Len(words) = 1 THEN words[1]
    ELSE words[1] \o sep \o Join(sep, Tail(words))

\* str.isupper: some cased character, and no lowercase one
IsUpperStr(s) ==
    /\ \E i \in DOMAIN s : IsCasedChar(s[i])
    /\ \A i \in DOMAIN s : ~IsLowerChar(s[i])

\* str.istitle: uppercase only after uncased, lowercase only after cased
IsTitleStr(s) ==
    /\ \E i \in DOMAIN s : IsCasedChar(s[i])
    /\ \A i \in DOMAIN s :
          LET prevCased == i > 1 /\ IsCasedChar(s[i - 1])
          IN  /\ IsUpperChar(s[i]) => ~prevCased
              /\ IsLowerChar(s[i]) => prevCased

\* str(n) for a natural number
RECURSIVE Str(_)
Str(n) ==
    LET d == <<"0", "1", "2", "3", "4", "5", "6", "7", "8", "9">>
    IN  IF n < 10 THEN <<d[n + 1]>> ELSE Str(n \div 10) \o <<d[(n % 10) + 1]>>

----------------------------------------------------------------------------
(* src/1a/main.py: the outline extractor *)

\* The spans the extraction boundary can hand over: size in 1/1000 pt.
RawSizes == {8004, 8006, 11995, 12005, 14000, 24000}

\* how many spans a document of the outline extractor holds at most
MaxOutlineSpans == 4

\* The documents of the outline extractor: the spans' sizes in reading order,
\* the first `first` of them on page 1 and the rest on page 2.
OutlineDocs ==
    {[sizes |-> q, first |-> f] :
        <<q, f>> \in {qf \in UNION {[1..k -> RawSizes] \X (0..k) :
                                       k \in 0..MaxOutlineSpans} : TRUE}}

\* round(x, 2) of a size given in 1/1000: the result in 1/100, ties to even
Round2(x) ==
    LET q == x \div 10
        r == x % 10
    IN  IF r > 5 \/ (r = 5 /\ q % 2 = 1) THEN q + 1 ELSE q

\* the lists of at most n elements of S
SeqsUpTo(S, n) == UNION {[1..k -> S] : k \in 0..n}

\* sorted(S), without reverse=True
SortedAscending(S) == SetToSortedSeq(S)

\* sorted(S, reverse=True)
SortedDesc(S) ==
    LET up == SetToSortedSeq(S)
    IN  [i \in DOMAIN up |-> up[Len(up) + 1 - i]]

\* the level determine_heading_levels gives to index i of the sorted sizes
LevelOfIndex(i) ==
    IF i = 0 THEN "H1"
    ELSE IF i = 1 THEN "H2"
    ELSE IF i = 2 THEN "H3"
    ELSE "P"

\* the dict determine_heading_levels builds from a set of sizes
HeadingLevelsOf(sizes) ==
    LET sorted_sizes == SortedDesc(sizes)
    IN  [size \in sizes |->
            LevelOfIndex((CHOOSE i \in DOMAIN sorted_sizes :
                              sorted_sizes[i] = size) - 1)]

AStart ==
    /\ font_sizes = {}
    /\ a_text_blocks = << >>
    /\ heading_levels = << >>
    /\ a_pc = "new"

\* extract_text_blocks over a document's spans, in order
ExtractTextBlocks ==
    /\ a_pc = "new"
    /\ \E d \in OutlineDocs :
          /\ a_text_blocks' = a_text_blocks \o
                 [i \in DOMAIN d.sizes |->
                     [size |-> Round2(d.sizes[i]),
                      page |-> IF i <= d.first THEN 1 ELSE 2]]
          /\ font_sizes' = font_sizes \cup
                 {Round2(d.sizes[i]) : i \in DOMAIN d.sizes}
    /\ a_pc' = "extracted"
    /\ UNCHANGED heading_levels
    /\ UNCHANGED otherThanOutline

\* determine_heading_levels
DetermineHeadingLevels ==
    /\ a_pc \in {"new", "extracted"}
    /\ heading_levels' =
          IF font_sizes = {} THEN << >> ELSE HeadingLevelsOf(font_sizes)
    /\ a_pc' = "levelled"
    /\ UNCHANGED <<font_sizes, a_text_blocks>>
    /\ UNCHANGED otherThanOutline

NextOutline == ExtractTextBlocks \/ DetermineHeadingLevels

----------------------------------------------------------------------------
(* src/1b/pdf_utils.py: the section segmenter *)

TRAVEL_SECTION_HEADERS ==
    << <<"i", "t", "i", "n", "e", "r", "a", "r", "y">>,
       <<"a", "c", "c", "o", "m", "m", "o", "d", "a", "t", "i", "o", "n">>,
       <<"t", "r", "a", "n", "s", "p", "o", "r", "t", "a", "t", "i", "o", "n">>,
       <<"a", "c", "t", "i", "v", "i", "t", "i", "e", "s">>,
       <<"d", "i", "n", "i", "n", "g">>,
       <<"s", "i", "g", "h", "t", "s", "e", "e", "i", "n", "g">>,
       <<"d", "a", "y", " ", "1">>, <<"d", "a", "y", " ", "2">>,
       <<"d", "a", "y", " ", "3">>, <<"d", "a", "y", " ", "4">>,
       <<"i", "n", "t", "r", "o", "d", "u", "c", "t", "i", "o", "n">>,
       <<"o", "v", "e", "r", "v", "i", "e", "w">>,
       <<"t", "i", "p", "s">>,
       <<"r", "e", "c", "o", "m", "m", "e", "n", "d", "a", "t", "i", "o", "n", "s">>,
       <<"b", "u", "d", "g", "e", "t">> >>

\* the longest text is_section_header takes for a header
MaxHeaderLen == 100

\* re.match(r'^\s*\d+[.)]\s+[A-Z]', text)
MatchesNumbered(text) ==
    \E a \in 0..Len(text) : \E b \in (a + 1)..Len(text) :
    \E c \in (b + 3)..Len(text) :
        /\ \A k \in 1..a : IsSpaceChar(text[k])
        /\ \A k \in (a + 1)..b : text[k] \in Digits
        /\ text[b + 1] \in {".", ")"}
        /\ \A k \in (b + 2)..(c - 1) : IsSpaceChar(text[k])
        /\ IsUpperChar(text[c])

\* is_section_header
is_section_header(text) ==
    IF text = << >> \/ Len(text) > MaxHeaderLen THEN FALSE
    ELSE LET text_lower == Strip(Lower(text))
         IN  \/ \E h \in DOMAIN TRAVEL_SECTION_HEADERS :
                    Contains(TRAVEL_SECTION_HEADERS[h], text_lower)
             \/ MatchesNumbered(text)
             \/ /\ Len(Split(text)) < 6
                /\ IsUpperStr(text) \/ IsTitleStr(text)

\* Path(pdf_path).name of the document being segmented
DocName == <<"t", "r", "i", "p", ".", "p", "d", "f">>

\* The spans the extraction boundary can hand over (span['text'], span['size']
\* in 1/100 pt, span['font']): a blank span, two headers, two content spans.
RawSpans ==
    { [text |-> <<" ", " ">>, size |-> 1100, font |-> <<"A", "r", "i", "a", "l">>],
      [text |-> <<"T", "I", "P", "S">>, size |-> 1800,
       font |-> <<"A", "r", "i", "a", "l", "-", "B", "o", "l", "d">>],
      [text |-> <<"D", "a", "y", " ", "1", ":", " ", "A", "r", "r", "i", "v", "a", "l">>,
       size |-> 2400, font |-> <<"A", "r", "i", "a", "l", "-", "B", "o", "l", "d">>],
      [text |-> <<"s", "e", "a", " ", "v", "i", "e", "w", " ">>,
       size |-> 1100, font |-> <<"A", "r", "i", "a", "l">>],
      [text |-> <<"w", "e", " ", "w", "a", "l", "k">>, size |-> 1000,
       font |-> <<"A", "r", "i", "a", "l">>] }

\* how many pages a document holds at most
MaxPages == 2

\* how many spans a document holds at most, over all its pages
MaxSpans == 3

\* the number of spans on the pages loaded so far
SpanCount(pages) ==
    LET RECURSIVE Sum(_)
        Sum(k) == IF k = 0 THEN 0 ELSE Len(pages[k]) + Sum(k - 1)
    IN  Sum(Len(pages))

RECURSIVE Flatten(_)
\* the concatenation of a list of strings
Flatten(ss) == IF ss = << >> THEN << >> ELSE Head(ss) \o Flatten(Tail(ss))

\* page.get_text("text"): the page's spans, one per line
PageText(page) ==
    Flatten([i \in DOMAIN page |-> page[i].text \o <<"\n">>])

\* lines 50-64: the page's non-blank spans, stripped
TextBlocksOf(page, pno) ==
    LET keep == SelectSeq(page, LAMBDA span : Strip(span.text) # << >>)
    IN  [i \in DOMAIN keep |->
            [text |-> Strip(keep[i].text),
             size |-> keep[i].size,
             font |-> keep[i].font,
             bold |-> Contains(<<"b", "o", "l", "d">>, Lower(keep[i].font)),
             page |-> pno + 1]]

\* `current_section and current_section['text'].strip()`; None is << >>
HasText(cur) == cur # << >> /\ Strip(cur[1].text) # << >>

\* lines 77-85: the section a header span opens
HeaderSection(block) ==
    [document |-> DocName, page_number |-> block.page, title |-> block.text,
     text |-> << >>, font_size |-> block.size, is_bold |-> block.bold,
     type |-> "section_header"]

\* the section a content span opens, typed as a header's section is
ContentSection_TypedHeader(block) ==
    [document |-> DocName, page_number |-> block.page,
     title |-> <<"C", "o", "n", "t", "e", "n", "t", " ", "f", "r", "o", "m", " ", "p", "a", "g", "e", " ">> \o Str(block.page),
     text |-> << >>, font_size |-> block.size, is_bold |-> FALSE,
     type |-> "section_header"]

\* lines 89-97: the section a content span opens when none is open
ContentSection(block) ==
    [document |-> DocName, page_number |-> block.page,
     title |-> <<"C", "o", "n", "t", "e", "n", "t", " ", "f", "r", "o", "m", " ", "p", "a", "g", "e", " ">> \o Str(block.page),
     text |-> << >>, font_size |-> block.size, is_bold |-> FALSE,
     type |-> "content"]

\* lines 100-102: the span's text appended with its separator
AppendText(text, span_text) ==
    (IF text # << >> /\ ~EndsWith(text, <<" ">>) THEN text \o <<" ">> ELSE text)
        \o span_text

\* lines 117-125: the fallback section of page pno (0-based)
PageSection(page, pno) ==
    [document |-> DocName, page_number |-> pno + 1,
     title |-> <<"P", "a", "g", "e", " ">> \o Str(pno + 1),
     text |-> PageText(page), font_size |-> 0, is_bold |-> FALSE,
     type |-> "page_content"]

\* the fallback without the test of line 116: a section for every page
FallbackSections_NoTextTest(pages) ==
    [k \in DOMAIN pages |-> PageSection(pages[k], k - 1)]

\* lines 112-125: the sections of the fallback over the whole document
FallbackSections(pages) ==
    LET idx == SelectSeq([i \in DOMAIN pages |-> i],
                         LAMBDA i : Strip(PageText(pages[i])) # << >>)
    IN  [k \in DOMAIN idx |-> PageSection(pages[idx[k]], idx[k] - 1)]

\* fitz.open of a document of n pages, before the first page is loaded
SStart(n) ==
    /\ s_len = n
    /\ s_doc = << >>
    /\ page_num = 0
    /\ text_blocks = << >>
    /\ blk_i = 0
    /\ current_section = << >>
    /\ sections = << >>
    /\ walk_sections = << >>
    /\ s_pc = "page"

\* lines 45-64: load the next page and collect its text blocks
LoadPage ==
    /\ s_pc = "page"
    /\ page_num < s_len
    /\ \E page \in SeqsUpTo(RawSpans, MaxSpans - SpanCount(s_doc)) :
          /\ s_doc' = Append(s_doc, page)
          /\ text_blocks' = TextBlocksOf(page, page_num)
    /\ blk_i' = 0
    /\ s_pc' = "blocks"
    /\ UNCHANGED <<s_len, page_num, current_section, sections, walk_sections>>
    /\ UNCHANGED otherThanSegmenter

\* lines 67-102: one iteration of the loop over the page's text blocks
ProcessBlock ==
    /\ s_pc = "blocks"
    /\ blk_i < Len(text_blocks)
    /\ LET block == text_blocks[blk_i + 1]
           text == block.text
       IN  IF is_section_header(text)
           THEN /\ sections' = IF HasText(current_section)
                               THEN Append(sections, current_section[1])
                               ELSE sections
                /\ current_section' = <<HeaderSection(block)>>
           ELSE LET cur == IF current_section = << >>
                           THEN ContentSection(block)
                           ELSE current_section[1]
                IN  /\ current_section' =
                          <<[cur EXCEPT !.text = AppendText(cur.text, text)]>>
                    /\ UNCHANGED sections
    /\ blk_i' = blk_i + 1
    /\ UNCHANGED <<s_len, s_doc, page_num, text_blocks, walk_sections, s_pc>>
    /\ UNCHANGED otherThanSegmenter

\* lines 104-106: the page's blocks are done; mark the page boundary
EndPage ==
    /\ s_pc = "blocks"
    /\ blk_i = Len(text_blocks)
    /\ current_section' =
          IF HasText(current_section)
          THEN <<[current_section[1] EXCEPT
                     !.text = current_section[1].text \o <<"\n", "\n">>]>>
          ELSE current_section
    /\ page_num' = page_num + 1
    /\ s_pc' = "page"
    /\ UNCHANGED <<s_len, s_doc, text_blocks, blk_i, sections, walk_sections>>
    /\ UNCHANGED otherThanSegmenter

\* lines 107-127: after the last page, add the last section, fall back to
\* page sections when none was found, and return
Return ==
    /\ s_pc = "page"
    /\ page_num = s_len
    /\ LET walked == IF HasText(current_section)
                     THEN Append(sections, current_section[1])
                     ELSE sections
       IN  /\ walk_sections' = walked
           /\ sections' = IF walked = << >> THEN FallbackSections(s_doc)
                          ELSE walked
    /\ s_pc' = "done"
    /\ UNCHANGED <<s_len, s_doc, page_num, text_blocks, blk_i, current_section>>
    /\ UNCHANGED otherThanSegmenter

SInit == \E n \in 0..MaxPages : SStart(n)

NextSegmenter == LoadPage \/ ProcessBlock \/ EndPage \/ Return

----------------------------------------------------------------------------
(* src/1b/optimized_utils.py: the sliding-window chunker *)

\* A page's text is the list of its words, text.split(); word k of a page is
\* the number k, so a page is given by the number of its words, and a chunk
\* " ".join(words[lo:hi]) by [lo, hi).  No word holds whitespace and none is
\* empty, so chunk.split() gives back words[lo:hi], hi - lo words.

\* the default window of sliding_window_chunks
DefaultWindow == 500

\* the default stride of sliding_window_chunks
DefaultStride == 400

\* a retained chunk has more words than this
MinChunkWords == 50

\* a retained chunk has fewer words than this
MaxChunkWords == 800

\* the most words a page of a one-page document holds
MaxWords == 860

\* how many pages a document of the chunker holds at most
MaxChunkPages == 2

\* the word counts of the pages of documents of several pages
SomeWordCounts ==
    {0, 1, 50, 51, 400, 401, 450, 451, 500, 501, 800, 801, 850, 851}

\* the documents: every one-page document, and the documents of several
\* pages over the word counts above
ChunkDocs ==
    {<<w>> : w \in 0..MaxWords} \cup SeqsUpTo(SomeWordCounts, MaxChunkPages)

\* the paths handed to the chunker
ChunkPaths ==
    {[dir |-> "data/pdfs", name |-> "a.pdf"],
     [dir |-> "data/pdfs", name |-> "b.pdf"]}

\* os.path.basename
Basename(path) == path.name

Min(a, b) == IF a <= b THEN a ELSE b

\* range(0, n, step) as a list
RangeStep(n, step) ==
    [k \in 1..((n + step - 1) \div step) |-> (k - 1) * step]

\* sliding_window_chunks with a stride one word longer than the window
sliding_window_chunks_Gap(words, window, stride) ==
    LET starts == RangeStep(words, window + 1)
    IN  [k \in DOMAIN starts |->
            [lo |-> starts[k], hi |-> Min(starts[k] + window, words)]]

\* sliding_window_chunks(text, window, stride) of a text of `words` words
sliding_window_chunks(words, window, stride) ==
    LET starts == RangeStep(words, stride)
    IN  [k \in DOMAIN starts |->
            [lo |-> starts[k], hi |-> Min(starts[k] + window, words)]]

\* len(chunk.split())
ChunkWords(chunk) == chunk.hi - chunk.lo

\* extract_text_from_pdf: (page number, text) of the pages with text
extract_text_from_pdf(doc) ==
    LET idx == SelectSeq([i \in DOMAIN doc |-> i], LAMBDA i : doc[i] > 0)
    IN  [k \in DOMAIN idx |-> [page_num |-> idx[k], words |-> doc[idx[k]]]]

\* line 47: the filter on a chunk
Retained(chunk) ==
    MinChunkWords < ChunkWords(chunk) /\ ChunkWords(chunk) < MaxChunkWords

\* lines 45-48 for one page: the chunks it adds to doc_chunks
PageChunks(filename, page) ==
    LET all == sliding_window_chunks(page.words, DefaultWindow, DefaultStride)
        kept == SelectSeq(all, Retained)
    IN  [k \in DOMAIN kept |->
            [filename |-> filename, page_num |-> page.page_num,
             chunk |-> kept[k]]]

CStart ==
    /\ c_path = << >>
    /\ c_doc = << >>
    /\ doc_chunks = << >>

\* _process_single_pdf_global(pdf_path), the document at pdf_path being doc;
\* the function keeps no state between calls, so a behaviour is one call
ProcessSinglePdf ==
    /\ c_path = << >>
    /\ \E path \in ChunkPaths : \E doc \in ChunkDocs :
          LET pages == extract_text_from_pdf(doc)
          IN  /\ c_path' = <<path>>
              /\ c_doc' = doc
              /\ doc_chunks' =
                    Flatten([k \in DOMAIN pages |->
                                PageChunks(Basename(path), pages[k])])
    /\ UNCHANGED otherThanChunker

NextChunker == ProcessSinglePdf

----------------------------------------------------------------------------
(* src/1b/embedding_utils.py: the embedding cache and the ranker *)

\* self.travel_keywords, in the order and with the repetitions of the source
travel_keywords ==
    << <<"i", "t", "i", "n", "e", "r", "a", "r", "y">>,
       <<"a", "c", "c", "o", "m", "m", "o", "d", "a", "t", "i", "o", "n">>,
       <<"h", "o", "t", "e", "l">>,
       <<"h", "o", "s", "t", "e", "l">>,
       <<"a", "i", "r", "b", "n", "b">>,
       <<"t", "r", "a", "n", "s", "p", "o", "r", "t", "a", "t", "i", "o", "n">>,
       <<"f", "l", "i", "g", "h", "t">>,
       <<"t", "r", "a", "i", "n">>,
       <<"b", "u", "s">>,
       <<"c", "a", "r", " ", "r", "e", "n", "t", "a", "l">>,
       <<"a", "c", "t", "i", "v", "i", "t", "i", "e", "s">>,
       <<"s", "i", "g", "h", "t", "s", "e", "e", "i", "n", "g">>,
       <<"t", "o", "u", "r">>,
       <<"a", "t", "t", "r", "a", "c", "t", "i", "o", "n">>,
       <<"l", "a", "n", "d", "m", "a", "r", "k">>,
       <<"r", "e", "s", "t", "a", "u", "r", "a", "n", "t">>,
       <<"c", "a", "f", "e">>,
       <<"d", "i", "n", "i", "n", "g">>,
       <<"f", "o", "o", "d">>,
       <<"c", "u", "i", "s", "i", "n", "e">>,
       <<"b", "u", "d", "g", "e", "t">>,
       <<"c", "o", "s", "t">>,
       <<"p", "r", "i", "c", "e">>,
       <<"e", "x", "p", "e", "n", "s", "e">>,
       <<"d", "a", "y", " ", "t", "r", "i", "p">>,
       <<"e", "x", "c", "u", "r", "s", "i", "o", "n">>,
       <<"i", "t", "i", "n", "e", "r", "a", "r", "y">>,
       <<"s", "c", "h", "e", "d", "u", "l", "e">>,
       <<"p", "l", "a", "n">>,
       <<"l", "o", "c", "a", "l", " ", "c", "u", "l", "t", "u", "r", "e">>,
       <<"t", "r", "a", "d", "i", "t", "i", "o", "n">>,
       <<"c", "u", "s", "t", "o", "m">>,
       <<"e", "t", "i", "q", "u", "e", "t", "t", "e">>,
       <<"s", "a", "f", "e", "t", "y">>,
       <<"t", "i", "p", "s">>,
       <<"a", "d", "v", "i", "c", "e">>,
       <<"r", "e", "c", "o", "m", "m", "e", "n", "d", "a", "t", "i", "o", "n">> >>

\* location_indicators of _calculate_relevance_boost
location_indicators ==
    << <<"i", "n", " ">>,
       <<"a", "t", " ">>,
       <<"v", "i", "s", "i", "t">>,
       <<"s", "e", "e", " ">>,
       <<"e", "x", "p", "l", "o", "r", "e">>,
       <<"t", "o", "u", "r">>,
       <<"t", "r", "i", "p", " ", "t", "o">> >>

\* A boost is a decimal number in units of 1/BoostScale.
BoostScale == 1000000

\* the cap of _calculate_relevance_boost, 2.5
MaxBoost == 2500000

\* \b of re at the gap after character i (0 for the start of the string)
WordBoundary(text, i) ==
    (i >= 1 /\ IsWordChar(text[i])) # (i < Len(text) /\ IsWordChar(text[i + 1]))

\* day\s+\d+ matching text[i+1..j], case ignored
MatchesDayNumber(text, i, j) ==
    /\ MatchAt(<<"d", "a", "y">>, Lower(text), i)
    /\ \E m \in (i + 4)..(j - 1) :
          /\ \A k \in (i + 4)..m : IsSpaceChar(text[k])
          /\ \A k \in (m + 1)..j : text[k] \in Digits

\* the literal alternatives of the pattern of line 141
DayPatternWords ==
    { <<"d", "a", "y">>,
      <<"i", "t", "i", "n", "e", "r", "a", "r", "y">>,
      <<"s", "c", "h", "e", "d", "u", "l", "e">> }

\* re.search(r'\b(?:day|day\s+\d+|itinerary|schedule)\b', text, re.IGNORECASE)
MatchesDayPattern(text) ==
    \E i \in 0..Len(text) : \E j \in i..Len(text) :
        /\ WordBoundary(text, i)
        /\ WordBoundary(text, j)
        /\ \/ \E w \in DayPatternWords :
                 j = i + Len(w) /\ MatchAt(w, Lower(text), i)
           \/ MatchesDayNumber(text, i, j)

\* boost *= f for a factor f given in hundredths (1.2 is 120)
Times(boost, f) == (boost * f) \div 100

\* lines 136-138: the loop over the keywords, from keyword k on
RECURSIVE TitleBoost(_, _, _)
TitleBoost(boost, title, k) ==
    IF k > Len(travel_keywords) THEN boost
    ELSE TitleBoost(IF Contains(travel_keywords[k], title)
                    THEN Times(boost, 120) ELSE boost,
                    title, k + 1)

\* _calculate_relevance_boost without the cap of line 149
calculate_relevance_boost_Uncapped(section, query) ==
    LET b1 == IF "title" \in DOMAIN section
              THEN TitleBoost(BoostScale, Lower(section.title), 1)
              ELSE BoostScale
        b2 == IF "text" \in DOMAIN section /\ MatchesDayPattern(section.text)
              THEN Times(b1, 130) ELSE b1
    IN  IF /\ "text" \in DOMAIN section
           /\ \E k \in DOMAIN location_indicators :
                 Contains(location_indicators[k], Lower(section.text))
        THEN Times(b2, 115) ELSE b2

\* _calculate_relevance_boost starting from 1.2 instead of 1.0
calculate_relevance_boost_Start12(section, query) ==
    Min(Times(calculate_relevance_boost_Uncapped(section, query), 120),
        MaxBoost)

\* _calculate_relevance_boost
calculate_relevance_boost(section, query) ==
    LET b1 == IF "title" \in DOMAIN section
              THEN TitleBoost(BoostScale, Lower(section.title), 1)
              ELSE BoostScale
        b2 == IF "text" \in DOMAIN section /\ MatchesDayPattern(section.text)
              THEN Times(b1, 130) ELSE b1
        b3 == IF /\ "text" \in DOMAIN section
                 /\ \E k \in DOMAIN location_indicators :
                       Contains(location_indicators[k], Lower(section.text))
              THEN Times(b2, 115) ELSE b2
    IN  Min(b3, MaxBoost)

\* The characters of the model's strings, in the order of their codes.
CharTable ==
    UpperAlphabet \o LowerAlphabet
        \o <<"0", "1", "2", "3", "4", "5", "6", "7", "8", "9">>
        \o <<" ", ".", ":", "-", "_", "\n">>

\* ord(c)
Ord(c) == CHOOSE i \in DOMAIN CharTable : CharTable[i] = c

\* The width of hash() in bits.  CPython's is 64; the model scales it down,
\* keeping what matters: there are more strings than hash values.
HashBits == 3

HashModulus == 2 ^ HashBits

\* the values PYTHONHASHSEED takes in the model
HashSeeds == {3, 5}

\* 1000003 ^ e modulo the width of the hash, by squaring
RECURSIVE HashPower(_)
HashPower(e) ==
    IF e = 0 THEN 1
    ELSE LET half == HashPower(e \div 2)
             odd == IF e % 2 = 1 THEN 1000003 % HashModulus ELSE 1
         IN  (half * half * odd) % HashModulus

\* The multiplicative string hash h := 1000003 * h + ord(c) over the
\* characters, as the sum of its terms: those of text[lo..hi], by halves.
RECURSIVE HashTerms(_, _, _)
HashTerms(text, lo, hi) ==
    IF lo > hi THEN 0
    ELSE IF lo = hi THEN (Ord(text[lo]) * HashPower(Len(text) - lo)) % HashModulus
    ELSE LET mid == (lo + hi) \div 2
         IN  (HashTerms(text, lo, mid) + HashTerms(text, mid + 1, hi))
                 % HashModulus

\* hash(text) of a str, seeded per process: the signed value Python returns
PyHash(text) ==
    LET u == (hash_seed * HashPower(Len(text))
                 + HashTerms(text, 1, Len(text))) % HashModulus
    IN  IF u >= HashModulus \div 2 THEN u - HashModulus ELSE u

\* DocumentAnalyzer._get_cache_key: f"{hash(text) & 0xFFFFFFFFFFFFFFFF}", the
\* mask being the full width of the hash
get_cache_key(text) == Str(PyHash(text) % HashModulus)

\* The embedding boundary hands back unit vectors; the model's are the
\* directions (x, y) of integer length n, standing for (x/n, y/n).
EmbeddingTable ==
    << [x |-> 3, y |-> 4, n |-> 5], [x |-> 5, y |-> 12, n |-> 13],
       [x |-> 8, y |-> 15, n |-> 17], [x |-> -4, y |-> 3, n |-> 5],
       [x |-> -12, y |-> 5, n |-> 13], [x |-> 7, y |-> 24, n |-> 25],
       [x |-> 1, y |-> 0, n |-> 1] >>

\* the sum of the character codes of text[lo..hi], computed by halves
RECURSIVE CheckSum(_, _, _)
CheckSum(text, lo, hi) ==
    IF lo > hi THEN 0
    ELSE IF lo = hi THEN Ord(text[lo])
    ELSE LET mid == (lo + hi) \div 2
         IN  CheckSum(text, lo, mid) + CheckSum(text, mid + 1, hi)

\* self.model.encode of one string: a deterministic embedding boundary, the
\* vector a function of the string's content alone
ModelEncode(text) ==
    EmbeddingTable[(CheckSum(text, 1, Len(text)) % Len(EmbeddingTable)) + 1]

\* the default batch_size of get_embeddings
DefaultBatchSize == 32

\* self.embedding_cache[key] = emb
Store(cache, key, emb) ==
    [k \in DOMAIN cache \cup {key} |-> IF k = key THEN emb ELSE cache[k]]

\* lines 99-101 over the uncached texts, in order, from text k on
RECURSIVE StoreAll(_, _, _)
StoreAll(cache, texts, k) ==
    IF k > Len(texts) THEN cache
    ELSE StoreAll(Store(cache, get_cache_key(texts[k]), ModelEncode(texts[k])),
                  texts, k + 1)

\* get_embeddings(texts) on a cache: the array returned, the cache left, and
\* the batches handed to self.model.encode
get_embeddings(texts, cache) ==
    IF texts = << >>
    THEN [out |-> << >>, cache |-> cache, encoded |-> << >>]
    ELSE LET hit(i) == get_cache_key(texts[i]) \in DOMAIN cache
             text_indices ==
                 SelectSeq([i \in DOMAIN texts |-> i], LAMBDA i : ~hit(i))
             uncached_texts ==
                 List([k \in DOMAIN text_indices |-> texts[text_indices[k]]])
             starts == RangeStep(Len(uncached_texts), DefaultBatchSize)
         IN  [out |->
                 List([i \in DOMAIN texts |->
                     IF hit(i) THEN cache[get_cache_key(texts[i])]
                     ELSE LET k == CHOOSE k \in DOMAIN text_indices :
                                       text_indices[k] = i
                          IN  ModelEncode(uncached_texts[k])]),
              cache |-> StoreAll(cache, uncached_texts, 1),
              encoded |->
                 List([b \in DOMAIN starts |->
                     Slice(uncached_texts, starts[b],
                           starts[b] + DefaultBatchSize)])]

\* A score is a decimal number in units of 1/100000; a rounded score, of
\* four decimals, in units of 1/10000.

\* util.cos_sim of two embeddings
CosSim(a, b) == ((a.x * b.x + a.y * b.y) * 100000) \div (a.n * b.n)

Abs(v) == IF v < 0 THEN -v ELSE v

\* num / den for num >= 0, rounded to the nearest integer, ties to even
RoundHalfEven(num, den) ==
    LET q == num \div den
        r == num % den
    IN  IF 2 * r > den \/ (2 * r = den /\ q % 2 = 1) THEN q + 1 ELSE q

\* round(base_score, 4)
Round4(base) ==
    (IF base < 0 THEN -1 ELSE 1) * RoundHalfEven(Abs(base), 10)

\* round(boost, 2), in hundredths
RoundBoost(boost) == RoundHalfEven(boost, BoostScale \div 100)

\* round(base_score * boost, 4): the product has eleven decimals, and is
\* computed in two halves to stay within 32 bits
MulRound4(base, boost) ==
    LET a == Abs(base)
        hi == a * (boost \div 1000)
        lo == a * (boost % 1000)
        rest == (hi % 10000) * 1000 + lo
        q == (hi \div 10000) + (rest \div 10000000)
        r == rest % 10000000
        rounded == IF 2 * r > 10000000 \/ (2 * r = 10000000 /\ q % 2 = 1)
                   THEN q + 1 ELSE q
    IN  (IF base < 0 THEN -1 ELSE 1) * rounded

\* lines 174-177: the string embedded for a section
SectionText(section) ==
    LET title == IF "title" \in DOMAIN section THEN section.title ELSE << >>
        text == IF "text" \in DOMAIN section THEN section.text ELSE << >>
        section_text == title \o <<" ">> \o text
    IN  IF "document" \in DOMAIN section
        THEN <<"D", "o", "c", "u", "m", "e", "n", "t", " ", "a", "b", "o", "u", "t", " ">> \o section.document
                 \o <<".", " ">> \o section_text
        ELSE section_text

\* lines 193-202: the copy of a section with its scores
Scored(section, base_score, boost) ==
    [f \in DOMAIN section \cup {"relevance_score", "base_score", "boost_factor"}
        |-> CASE f = "relevance_score" -> MulRound4(base_score, boost)
              [] f = "base_score" -> Round4(base_score)
              [] f = "boost_factor" -> RoundBoost(boost)
              [] OTHER -> section[f]]

\* the place of x in a list sorted by score, descending, before its equals
RECURSIVE InsertBeforeEquals(_, _)
InsertBeforeEquals(sorted, x) ==
    IF sorted = << >> THEN <<x>>
    ELSE IF Head(sorted).relevance_score > x.relevance_score
         THEN <<Head(sorted)>> \o InsertBeforeEquals(Tail(sorted), x)
         ELSE <<x>> \o sorted

\* a sort by score, descending, that reverses the order of equal scores
RECURSIVE SortByScore_TiesReversed(_)
SortByScore_TiesReversed(list) ==
    IF list = << >> THEN << >>
    ELSE InsertBeforeEquals(
             SortByScore_TiesReversed(SubSeq(list, 1, Len(list) - 1)),
             list[Len(list)])

\* the place of x in a list sorted by score, descending, after its equals
RECURSIVE InsertAfterEquals(_, _)
InsertAfterEquals(sorted, x) ==
    IF sorted = << >> THEN <<x>>
    ELSE IF Head(sorted).relevance_score >= x.relevance_score
         THEN <<Head(sorted)>> \o InsertAfterEquals(Tail(sorted), x)
         ELSE <<x>> \o sorted

\* list.sort(key=lambda x: x['relevance_score'], reverse=True): stable
RECURSIVE SortByScore(_)
SortByScore(list) ==
    IF list = << >> THEN << >>
    ELSE InsertAfterEquals(SortByScore(SubSeq(list, 1, Len(list) - 1)),
                           list[Len(list)])

\* rank_sections without the test of lines 168-169: the query is embedded
\* whatever the candidates
rank_sections_EmbedsQuery(secs, query, top_n, cache) ==
    LET e2 == get_embeddings(<<query>>, cache)
    IN  [result |-> << >>, scored |-> << >>, boosts |-> << >>,
         cache |-> e2.cache,
         calls |-> <<[texts |-> <<query>>, out |-> e2.out,
                      encoded |-> e2.encoded]>>]

\* rank_sections(sections, query, top_n) on a cache: the list returned, the
\* locals scored_sections (before the sort) and boost, the cache left, and
\* the calls of get_embeddings with what each handed to the model
rank_sections(secs, query, top_n, cache) ==
    IF secs = << >>
    THEN [result |-> << >>, scored |-> << >>, boosts |-> << >>,
          cache |-> cache, calls |-> << >>]
    ELSE LET texts == List([i \in DOMAIN secs |-> SectionText(secs[i])])
             e1 == get_embeddings(texts, cache)
             e2 == get_embeddings(<<query>>, e1.cache)
             text_embeddings == e1.out
             query_embedding == e2.out[1]
             boosts == List([i \in DOMAIN secs |->
                                calculate_relevance_boost(secs[i], query)])
             scored_sections ==
                 List([i \in DOMAIN secs |->
                     Scored(secs[i],
                            CosSim(query_embedding, text_embeddings[i]),
                            boosts[i])])
         IN  [result |-> Slice(SortByScore(scored_sections), 0, top_n),
              scored |-> scored_sections,
              boosts |-> boosts,
              cache |-> e2.cache,
              calls |-> <<[texts |-> texts, out |-> e1.out,
                           encoded |-> e1.encoded],
                          [texts |-> <<query>>, out |-> e2.out,
                           encoded |-> e2.encoded]>>]

\* how many candidate sections a call of rank_sections is given at most
MaxSections == 2

\* how many texts a direct call of get_embeddings is given at most
MaxTexts == 2

\* The candidate sections: dicts with and without title, text and document.
RankCandidates ==
    { [document |-> DocName, page_number |-> 1,
       title |-> <<"I", "t", "i", "n", "e", "r", "a", "r", "y">>,
       text |-> <<"D", "a", "y", " ", "1", " ", "v", "i", "s", "i", "t">>],
      [document |-> DocName, page_number |-> 2,
       title |-> <<"H", "o", "t", "e", "l", " ", "B", "u", "d", "g", "e", "t", " ", "T", "i", "p", "s">>,
       text |-> <<"d", "a", "y", " ", "t", "r", "i", "p", " ", "t", "o", " ", "x">>],
      [document |-> DocName, page_number |-> 1,
       title |-> <<"N", "o", "t", "e", "s">>,
       text |-> <<"h", "o", "l", "i", "d", "a", "y">>],
      [document |-> DocName, page_number |-> 3,
       title |-> <<"N", "o", "t", "e", "s">>,
       text |-> <<"h", "o", "l", "i", "d", "a", "y">>],
      [text |-> <<"c", "a", "b", "i", "n", " ", "x">>],
      [title |-> <<"P", "l", "a", "n">>] }

\* the queries, the empty one among them
RankQueries == { <<"p", "l", "a", "n", " ", "t", "r", "i", "p">>, << >> }

\* the values of top_n, the default 10 among them
TopNs == {0, 1, 10}

\* the texts of the direct calls of get_embeddings
DirectTexts ==
    { <<"P", "l", "a", "n">>, <<"c", "a", "b", "i", "n", " ", "x">> }

RStart(seed) ==
    /\ hash_seed = seed
    /\ embedding_cache = << >>
    /\ r_pc = "fresh"
    /\ emb_calls = << >>
    /\ rank_args = << >>
    /\ rank_scored = << >>
    /\ rank_boosts = << >>
    /\ rank_result = << >>
    /\ rank_first = << >>

RInit == \E seed \in HashSeeds : RStart(seed)

\* a caller's get_embeddings(texts), the analyzer's first and its second
GetEmbeddings ==
    /\ r_pc \in {"fresh", "warm"}
    /\ \E texts \in SeqsUpTo(DirectTexts, MaxTexts) :
       \E e \in {get_embeddings(texts, embedding_cache)} :
          /\ embedding_cache' = e.cache
          /\ emb_calls' = <<[texts |-> texts, out |-> e.out,
                             encoded |-> e.encoded]>>
    /\ r_pc' = IF r_pc = "fresh" THEN "warm" ELSE "hot"
    /\ UNCHANGED <<hash_seed, rank_args, rank_scored, rank_boosts,
                   rank_result, rank_first>>
    /\ UNCHANGED otherThanRanker

\* rank_sections(sections, query, top_n), the analyzer's first call of it: on
\* a fresh analyzer, or with at most one candidate on one whose cache a
\* get_embeddings has filled
RankSections ==
    /\ r_pc \in {"fresh", "warm"}
    /\ \E secs \in SeqsUpTo(RankCandidates,
                             IF r_pc = "fresh" THEN MaxSections ELSE 1) :
       \E query \in RankQueries : \E top_n \in TopNs :
       \E r \in {rank_sections(secs, query, top_n, embedding_cache)} :
          /\ rank_args' =
                <<[sections |-> secs, query |-> query, top_n |-> top_n]>>
          /\ embedding_cache' = r.cache
          /\ emb_calls' = r.calls
          /\ rank_scored' = r.scored
          /\ rank_boosts' = r.boosts
          /\ rank_result' = r.result
    /\ r_pc' = "ranked"
    /\ UNCHANGED <<hash_seed, rank_first>>
    /\ UNCHANGED otherThanRanker

\* rank_sections again, with the arguments of the call before
RankAgain ==
    /\ r_pc = "ranked"
    /\ \E r \in {rank_sections(rank_args[1].sections, rank_args[1].query,
                                rank_args[1].top_n, embedding_cache)} :
          /\ embedding_cache' = r.cache
          /\ emb_calls' = r.calls
          /\ rank_scored' = r.scored
          /\ rank_boosts' = r.boosts
          /\ rank_result' = r.result
    /\ rank_first' = <<[result |-> rank_result, scored |-> rank_scored]>>
    /\ r_pc' = "again"
    /\ UNCHANGED <<hash_seed, rank_args>>
    /\ UNCHANGED otherThanRanker

NextRanker == GetEmbeddings \/ RankSections \/ RankAgain

----------------------------------------------------------------------------
(* src/1b/main.py: main and process_input_json; src/1b/pdf_utils.py:
   extract_sections_from_pdfs; src/1b/optimized_utils.py: process_documents *)

\* how many documents a run is given at most
MaxDocs == 3

\* What a document is to the run: no file at its path; a file that fitz
\* fails to open or parse; a file without usable text; files that yield one
\* and two sections (or chunks).
DocKinds == {"missing", "broken", "empty", "one", "two"}

\* the filename of the i-th document
FileName(i) == Str(i) \o <<".", "p", "d", "f">>

\* the document lists of input.json
DocumentLists ==
    UNION {{[i \in 1..n |-> [filename |-> FileName(i), kind |-> kinds[i]]] :
               kinds \in [1..n -> DocKinds]} : n \in 0..MaxDocs}

\* top_n of a run: the default 10, and 1
PipelineTopNs == {1, 10}

\* The sections extract_sections_from_pdf returns for a readable document (or
\* the chunks _process_single_pdf_global returns), each with the score the
\* ranking will give it, in 1/10000.
UnitsOf(doc) ==
    CASE doc.kind = "one" ->
             <<[document |-> doc.filename, page_number |-> 1, score |-> 5000]>>
      [] doc.kind = "two" ->
             <<[document |-> doc.filename, page_number |-> 1, score |-> 3000],
               [document |-> doc.filename, page_number |-> 2, score |-> 7000]>>
      [] OTHER -> << >>

\* fitz.open and the page walk raise for this document
Raises(doc) == doc.kind \in {"missing", "broken"}

\* the try of the per-document loop that forgets what it has collected when
\* a document fails
Collect_ForgetsOnFailure(collected, doc) ==
    IF Raises(doc) THEN << >> ELSE collected \o UnitsOf(doc)

\* main.py lines 58-62, pdf_utils.py lines 137-141: all_sections after the try
\* of the loop for one document
Collect(collected, doc) ==
    IF Raises(doc) THEN collected ELSE collected \o UnitsOf(doc)

\* the ranking of the collected units: each with its relevance_score, sorted
\* by it, descending, and cut to top_n
RankedUnits(units, top_n) ==
    IF units = << >> THEN << >>
    ELSE Slice(SortByScore(List([i \in DOMAIN units |->
                   [document |-> units[i].document,
                    page_number |-> units[i].page_number,
                    relevance_score |-> units[i].score]])), 0, top_n)

\* _process_single_pdf_global: extract_text_from_pdf catches what fitz raises
\* and the document gives no chunk
ChunksOfDocument(doc) == IF Raises(doc) THEN << >> ELSE UnitsOf(doc)

\* preprocess_pdfs: the chunks of the documents, in the order of the paths
preprocess_pdfs(paths) ==
    Flatten(List([i \in DOMAIN paths |-> ChunksOfDocument(paths[i])]))

PStart ==
    /\ p_entry = ""
    /\ documents = << >>
    /\ p_top_n = 0
    /\ pdf_files = << >>
    /\ p_i = 0
    /\ all_sections = << >>
    /\ p_warnings = << >>
    /\ p_error = << >>
    /\ summary = << >>
    /\ p_pc = "idle"


\* what the run writes to summary.json
SummaryOf(docs, ranked) ==
    [input_documents |-> List([i \in DOMAIN docs |-> docs[i].filename]),
     extracted_sections |->
         List([i \in DOMAIN ranked |->
                  [document |-> ranked[i].document,
                   page_number |-> ranked[i].page_number,
                   importance_rank |-> i,
                   relevance_score |-> ranked[i].relevance_score]])]

\* the filenames of the documents of a list that satisfy a test
FileNamesWhere(docs, Test(_)) ==
    LET chosen == SelectSeq(docs, Test)
    IN  List([i \in DOMAIN chosen |-> chosen[i].filename])

IsMissing(doc) == doc.kind = "missing"

Exists(doc) == ~IsMissing(doc)

\* main.py lines 93-112 with process_input_json lines 39-56: the documents of
\* input.json that exist are the loop's; with none of them the ValueError of
\* line 53 reaches the except of line 164
StartMain ==
    /\ p_pc = "idle"
    /\ \E docs \in DocumentLists : \E top_n \in PipelineTopNs :
          /\ documents' = docs
          /\ p_top_n' = top_n
          /\ pdf_files' = SelectSeq(docs, Exists)
          /\ p_warnings' = FileNamesWhere(docs, IsMissing)
          /\ IF SelectSeq(docs, Exists) = << >>
             THEN /\ p_error' = <<"No valid PDF files found">>
                  /\ p_pc' = "failed"
             ELSE /\ p_error' = << >>
                  /\ p_pc' = "loop"
    /\ p_entry' = "main"
    /\ UNCHANGED <<p_i, all_sections, summary>>
    /\ UNCHANGED otherThanPipeline

\* extract_sections_from_pdfs lines 131-135: the files the glob finds
StartDirectory ==
    /\ p_pc = "idle"
    /\ \E docs \in DocumentLists :
          /\ \A i \in DOMAIN docs : Exists(docs[i])
          /\ documents' = docs
          /\ pdf_files' = docs
    /\ p_entry' = "extract_sections_from_pdfs"
    /\ p_pc' = "loop"
    /\ UNCHANGED <<p_top_n, p_i, all_sections, p_warnings, p_error, summary>>
    /\ UNCHANGED otherThanPipeline

\* main.py lines 57-62, pdf_utils.py lines 136-141: one document of the loop
ProcessPdfFile ==
    /\ p_pc = "loop"
    /\ p_i < Len(pdf_files)
    /\ all_sections' = Collect(all_sections, pdf_files[p_i + 1])
    /\ p_warnings' = IF Raises(pdf_files[p_i + 1])
                     THEN Append(p_warnings, pdf_files[p_i + 1].filename)
                     ELSE p_warnings
    /\ p_i' = p_i + 1
    /\ UNCHANGED <<p_entry, documents, p_top_n, pdf_files, p_error, summary,
                   p_pc>>
    /\ UNCHANGED otherThanPipeline

\* main.py lines 114-166: the loop is over; rank, and write summary.json
MainAnalyze ==
    /\ p_pc = "loop"
    /\ p_entry = "main"
    /\ p_i = Len(pdf_files)
    /\ IF all_sections = << >>
       THEN /\ p_error' = <<"No text sections were extracted from the PDFs">>
            /\ p_pc' = "failed"
            /\ UNCHANGED summary
       ELSE /\ summary' =
                  <<SummaryOf(documents, RankedUnits(all_sections, p_top_n))>>
            /\ p_pc' = "done"
            /\ UNCHANGED p_error
    /\ UNCHANGED <<p_entry, documents, p_top_n, pdf_files, p_i, all_sections,
                   p_warnings>>
    /\ UNCHANGED otherThanPipeline

\* pdf_utils.py line 143: the loop is over; return all_sections
ReturnSections ==
    /\ p_pc = "loop"
    /\ p_entry = "extract_sections_from_pdfs"
    /\ p_i = Len(pdf_files)
    /\ p_pc' = "done"
    /\ UNCHANGED <<p_entry, documents, p_top_n, pdf_files, p_i, all_sections,
                   p_warnings, p_error, summary>>
    /\ UNCHANGED otherThanPipeline

\* process_documents, lines 127-202
ProcessDocuments ==
    /\ p_pc = "idle"
    /\ \E docs \in DocumentLists : \E top_n \in PipelineTopNs :
          /\ documents' = docs
          /\ p_top_n' = top_n
          /\ pdf_files' = docs
          /\ p_i' = Len(docs)
          /\ all_sections' = preprocess_pdfs(docs)
          /\ p_warnings' = FileNamesWhere(docs, Raises)
          /\ summary' =
                <<SummaryOf(docs, RankedUnits(preprocess_pdfs(docs), top_n))>>
    /\ p_entry' = "process_documents"
    /\ p_pc' = "done"
    /\ UNCHANGED p_error
    /\ UNCHANGED otherThanPipeline

NextPipeline ==
    \/ StartMain
    \/ StartDirectory
    \/ ProcessPdfFile
    \/ MainAnalyze
    \/ ReturnSections
    \/ ProcessDocuments

----------------------------------------------------------------------------
(* src/1b/optimized_utils.py: DocumentProcessor.preprocess_pdfs and its pool *)

\* how many paths preprocess_pdfs is given at most
MaxPaths == 6

\* the cap of lines 63 and 66 on the workers and on the batch
PoolCap == 4

\* os.cpu_count(): 0 stands for None
CpuCounts == {0, 2, 8}

\* min(4, len(pdf_paths), os.cpu_count() or 1)
NumProcessesFor(n, cpus) ==
    Min(PoolCap, Min(n, IF cpus = 0 THEN 1 ELSE cpus))

\* a batch that is the whole list
ChunkSizeFor_WholeList(n) == n

\* min(4, len(pdf_paths))
ChunkSizeFor(n) == Min(PoolCap, n)

\* what _process_single_pdf_global returns for path k: no chunk, one or two
ChunksOfPath(k) ==
    List([c \in 1..(k % 3) |-> [filename |-> k, chunk |-> c]])

WStart ==
    /\ pdf_paths = 0
    /\ num_processes = 0
    /\ chunk_size = 0
    /\ w_i = 0
    /\ chunk_paths = << >>
    /\ task_queue = << >>
    /\ in_flight = {}
    /\ results = << >>
    /\ all_chunks = << >>
    /\ started = << >>
    /\ w_pc = "idle"

\* lines 59-67: the call, up to the loop
Preprocess ==
    /\ w_pc = "idle"
    /\ \E n \in 0..MaxPaths : \E cpus \in CpuCounts :
          /\ pdf_paths' = n
          /\ IF n = 0
             THEN /\ w_pc' = "done"
                  /\ UNCHANGED <<num_processes, chunk_size>>
             ELSE /\ num_processes' = NumProcessesFor(n, cpus)
                  /\ chunk_size' = ChunkSizeFor(n)
                  /\ w_pc' = "loop"
    /\ UNCHANGED <<w_i, chunk_paths, task_queue, in_flight, results,
                   all_chunks, started>>
    /\ UNCHANGED otherThanPool

\* lines 69-72: the next batch is handed to pool.map of a new pool
MapBatch ==
    /\ w_pc = "loop"
    /\ w_i < pdf_paths
    /\ chunk_paths' =
          List([k \in 1..(Min(w_i + chunk_size, pdf_paths) - w_i) |-> w_i + k])
    /\ task_queue' = chunk_paths'
    /\ results' = << >>
    /\ w_pc' = "map"
    /\ UNCHANGED <<pdf_paths, num_processes, chunk_size, w_i, in_flight,
                   all_chunks, started>>
    /\ UNCHANGED otherThanPool

\* a worker of the pool that is free takes the next task
WorkerTakes ==
    /\ w_pc = "map"
    /\ task_queue # << >>
    /\ Cardinality(in_flight) < num_processes
    /\ in_flight' = in_flight \cup {Head(task_queue)}
    /\ task_queue' = Tail(task_queue)
    /\ started' = Append(started, Head(task_queue))
    /\ UNCHANGED <<pdf_paths, num_processes, chunk_size, w_i, chunk_paths,
                   results, all_chunks, w_pc>>
    /\ UNCHANGED otherThanPool

\* a worker returns the result of _process_single_pdf_global for its path
WorkerReturns ==
    /\ w_pc = "map"
    /\ \E k \in in_flight :
          /\ in_flight' = in_flight \ {k}
          /\ results' = [j \in DOMAIN results \cup {k} |->
                             IF j = k THEN ChunksOfPath(k) ELSE results[j]]
    /\ UNCHANGED <<pdf_paths, num_processes, chunk_size, w_i, chunk_paths,
                   task_queue, all_chunks, started, w_pc>>
    /\ UNCHANGED otherThanPool

\* lines 72-73: every result is back; pool.map returns them in the order of
\* chunk_paths and they are added to all_chunks
ExtendChunks ==
    /\ w_pc = "map"
    /\ task_queue = << >>
    /\ in_flight = {}
    /\ all_chunks' =
          all_chunks
              \o Flatten(List([k \in DOMAIN chunk_paths |->
                                  results[chunk_paths[k]]]))
    /\ w_i' = w_i + chunk_size
    /\ w_pc' = "loop"
    /\ UNCHANGED <<pdf_paths, num_processes, chunk_size, chunk_paths,
                   task_queue, in_flight, results, started>>
    /\ UNCHANGED otherThanPool

\* line 75
ReturnChunks ==
    /\ w_pc = "loop"
    /\ w_i >= pdf_paths
    /\ w_pc' = "done"
    /\ UNCHANGED <<pdf_paths, num_processes, chunk_size, w_i, chunk_paths,
                   task_queue, in_flight, results, all_chunks, started>>
    /\ UNCHANGED otherThanPool

NextPool ==
    \/ Preprocess
    \/ MapBatch
    \/ WorkerTakes
    \/ WorkerReturns
    \/ ExtendChunks
    \/ ReturnChunks

----------------------------------------------------------------------------
(* src/1b/embedding_utils.py: get_analyzer and get_embeddings, interleaved *)

\* the callers that share the process
Callers == {"a", "b"}

\* the lists of texts a caller asks embeddings for
SharedCalls ==
    { << <<"h", "o", "l", "i", "d", "a", "y">>, <<"P", "l", "a", "n">> >>,
      << <<"b", "u", "s">> >>,
      << <<"P", "l", "a", "n">>, <<"h", "o", "l", "i", "d", "a", "y">> >>,
      << >> }

\* a row of np.zeros
ZeroVector == [x |-> 0, y |-> 0, n |-> 1]

\* a caller that has not called yet
IdleThread ==
    [pc |-> "idle", self |-> 0, texts |-> << >>, i |-> 1,
     embeddings |-> << >>, uncached_texts |-> << >>, text_indices |-> << >>,
     batch_start |-> 0, batch |-> << >>, batch_embeddings |-> << >>, j |-> 1]

TStart ==
    /\ analyzer_global = 0
    /\ analyzers = << >>
    /\ threads = [c \in Callers |-> IdleThread]

\* a caller sets out to call get_analyzer().get_embeddings(texts)
CallGetEmbeddings(c) ==
    /\ threads[c].pc = "idle"
    /\ \E texts \in SharedCalls :
          threads' = [threads EXCEPT ![c].pc = "test", ![c].texts = texts]
    /\ UNCHANGED <<analyzer_global, analyzers>>
    /\ UNCHANGED otherThanThreads

\* get_analyzer, line 218: if _analyzer is None
TestAnalyzer(c) ==
    /\ threads[c].pc = "test"
    /\ threads' = [threads EXCEPT ![c].pc =
                      IF analyzer_global = 0 THEN "create" ELSE "return"]
    /\ UNCHANGED <<analyzer_global, analyzers>>
    /\ UNCHANGED otherThanThreads

\* get_analyzer, line 219: _analyzer = DocumentAnalyzer()
CreateAnalyzer(c) ==
    /\ threads[c].pc = "create"
    /\ analyzers' = Append(analyzers, << >>)
    /\ analyzer_global' = Len(analyzers) + 1
    /\ threads' = [threads EXCEPT ![c].pc = "return"]
    /\ UNCHANGED otherThanThreads

\* get_analyzer, line 220: return _analyzer; then get_embeddings, lines 70-76
EnterGetEmbeddings(c) ==
    /\ threads[c].pc = "return"
    /\ threads' = [threads EXCEPT
          ![c].self = analyzer_global,
          ![c].embeddings =
              List([i \in DOMAIN threads[c].texts |-> ZeroVector]),
          ![c].pc = IF threads[c].texts = << >> THEN "done" ELSE "check"]
    /\ UNCHANGED <<analyzer_global, analyzers>>
    /\ UNCHANGED otherThanThreads

\* get_embeddings, lines 78-84 for one text: the check-miss step
CheckMiss(c) ==
    LET t == threads[c]
        text == t.texts[t.i]
        cache_key == get_cache_key(text)
        cache == analyzers[t.self]
        hit == cache_key \in DOMAIN cache
        uncached == IF hit THEN t.uncached_texts
                    ELSE Append(t.uncached_texts, text)
    IN  /\ t.pc = "check"
        /\ threads' = [threads EXCEPT
              ![c].embeddings =
                  IF hit THEN [t.embeddings EXCEPT ![t.i] = cache[cache_key]]
                  ELSE t.embeddings,
              ![c].uncached_texts = uncached,
              ![c].text_indices =
                  IF hit THEN t.text_indices ELSE Append(t.text_indices, t.i),
              ![c].i = t.i + 1,
              ![c].pc = IF t.i < Len(t.texts) THEN "check"
                        ELSE IF uncached # << >> THEN "encode" ELSE "done"]
        /\ UNCHANGED <<analyzer_global, analyzers>>
        /\ UNCHANGED otherThanThreads

\* get_embeddings, lines 89-96: one batch through self.model.encode
Encode(c) ==
    LET t == threads[c]
        batch == Slice(t.uncached_texts, t.batch_start,
                       t.batch_start + DefaultBatchSize)
    IN  /\ t.pc = "encode"
        /\ threads' = [threads EXCEPT
              ![c].batch = batch,
              ![c].batch_embeddings =
                  List([k \in DOMAIN batch |-> ModelEncode(batch[k])]),
              ![c].j = 1,
              ![c].pc = "store"]
        /\ UNCHANGED <<analyzer_global, analyzers>>
        /\ UNCHANGED otherThanThreads

\* get_embeddings, lines 99-102 for one text of the batch: the store step
StoreOne(c) ==
    LET t == threads[c]
        emb == t.batch_embeddings[t.j]
        cache_key == get_cache_key(t.batch[t.j])
        more == t.batch_start + DefaultBatchSize < Len(t.uncached_texts)
    IN  /\ t.pc = "store"
        /\ analyzers' = [analyzers EXCEPT
                            ![t.self] = Store(analyzers[t.self], cache_key, emb)]
        /\ threads' = [threads EXCEPT
              ![c].embeddings =
                  [t.embeddings EXCEPT
                      ![t.text_indices[t.batch_start + t.j]] = emb],
              ![c].j = t.j + 1,
              ![c].batch_start =
                  IF t.j = Len(t.batch) /\ more
                  THEN t.batch_start + DefaultBatchSize ELSE t.batch_start,
              ![c].pc = IF t.j < Len(t.batch) THEN "store"
                        ELSE IF more THEN "encode" ELSE "done"]
        /\ UNCHANGED analyzer_global
        /\ UNCHANGED otherThanThreads

NextThreads ==
    \E c \in Callers :
        \/ CallGetEmbeddings(c)
        \/ TestAnalyzer(c)
        \/ CreateAnalyzer(c)
        \/ EnterGetEmbeddings(c)
        \/ CheckMiss(c)
        \/ Encode(c)
        \/ StoreOne(c)

----------------------------------------------------------------------------
(* the specifications: one component runs, the others stay as constructed *)

InitOutline ==
    AStart /\ SStart(0) /\ CStart /\ RStart(3) /\ PStart /\ WStart /\ TStart

SpecOutline == InitOutline /\ [][NextOutline]_vars

InitSegmenter ==
    SInit /\ AStart /\ CStart /\ RStart(3) /\ PStart /\ WStart /\ TStart

SpecSegmenter == InitSegmenter /\ [][NextSegmenter]_vars

InitChunker ==
    CStart /\ AStart /\ SStart(0) /\ RStart(3) /\ PStart /\ WStart /\ TStart

SpecChunker == InitChunker /\ [][NextChunker]_vars

InitRanker ==
    RInit /\ AStart /\ SStart(0) /\ CStart /\ PStart /\ WStart /\ TStart

SpecRanker == InitRanker /\ [][NextRanker]_vars

InitPipeline ==
    PStart /\ AStart /\ SStart(0) /\ CStart /\ RStart(3) /\ WStart /\ TStart

SpecPipeline == InitPipeline /\ [][NextPipeline]_vars

InitPool ==
    WStart /\ AStart /\ SStart(0) /\ CStart /\ RStart(3) /\ PStart /\ TStart

SpecPool == InitPool /\ [][NextPool]_vars

InitThreads ==
    TStart /\ RInit /\ AStart /\ SStart(0) /\ CStart /\ PStart /\ WStart

SpecThreads == InitThreads /\ [][NextThreads]_vars

----------------------------------------------------------------------------
(* the outline extractor's properties *)

\* how many sizes of S are larger than s
RankOf(s, S) == Cardinality({t \in S : t > s})

\* C7: once determine_heading_levels has run, its map has exactly the observed
\* sizes as keys (the empty map for no size), the largest size is H1, the
\* second largest H2, the third largest H3 and every other size the body level
\* P, and each heading tier is held by exactly one size when there are enough
\* sizes for it and by none otherwise.
C7_HeadingLevelsByRank ==
    a_pc = "levelled" =>
        /\ DOMAIN heading_levels = font_sizes
        /\ \A s \in font_sizes :
              heading_levels[s] =
                  CASE RankOf(s, font_sizes) = 0 -> "H1"
                    [] RankOf(s, font_sizes) = 1 -> "H2"
                    [] RankOf(s, font_sizes) = 2 -> "H3"
                    [] OTHER -> "P"
        /\ \A t \in 1..3 :
              Cardinality({s \in font_sizes :
                              heading_levels[s] = <<"H1", "H2", "H3">>[t]})
                  = IF Cardinality(font_sizes) >= t THEN 1 ELSE 0

\* a document with four distinct rounded sizes has been levelled
C7_Witness ==
    /\ a_pc = "levelled"
    /\ Cardinality(font_sizes) >= 4
    /\ \E s \in font_sizes : heading_levels[s] = "P"

----------------------------------------------------------------------------
(* the segmenter's properties *)

\* a string without its whitespace
NoSpace(str) == SelectSeq(str, LAMBDA c : ~IsSpaceChar(c))

\* every span's text of the document, in reading order
AllSpanText(pages) ==
    Flatten([p \in DOMAIN pages |->
                Flatten([i \in DOMAIN pages[p] |-> pages[p][i].text])])

\* the titles that are span text (a header's) and the texts of the sections
AllSectionText(secs) ==
    Flatten([k \in DOMAIN secs |->
                (IF secs[k].type = "section_header" THEN secs[k].title
                 ELSE << >>) \o secs[k].text])

\* whether no span of the document is a header
NoHeaderIn(pages) ==
    \A p \in DOMAIN pages : \A i \in DOMAIN pages[p] :
        ~is_section_header(Strip(pages[p][i].text))

\* the pages (1-based) whose text is not blank
TextPages(pages) ==
    {p \in DOMAIN pages : Strip(PageText(pages[p])) # << >>}

\* C1: the returned sections' titles and texts, concatenated in order, are
\* the spans' texts concatenated in reading order, whitespace aside: every
\* span's text occurs exactly once, none is dropped and none is duplicated.
C1_EverySpanExactlyOnce ==
    s_pc = "done" =>
        NoSpace(AllSectionText(sections)) = NoSpace(AllSpanText(s_doc))

\* C8: the page fallback is all or nothing.  When the span walk left no
\* section, the result is one page_content section per page with text, in
\* page order, titled "Page N" with font_size 0; otherwise the result is the
\* walk's sections and holds no page_content section.  A document with text
\* on some page never returns an empty list.
C8_FallbackAllOrNothing ==
    s_pc = "done" =>
        /\ walk_sections = << >> =>
              /\ Len(sections) = Cardinality(TextPages(s_doc))
              /\ \A k \in DOMAIN sections :
                    /\ sections[k].page_number \in TextPages(s_doc)
                    /\ sections[k].type = "page_content"
                    /\ sections[k].font_size = 0
                    /\ sections[k].title =
                          <<"P", "a", "g", "e", " ">>
                              \o Str(sections[k].page_number)
                    /\ sections[k].text =
                          PageText(s_doc[sections[k].page_number])
                    /\ \A j \in DOMAIN sections :
                          j < k =>
                              sections[j].page_number < sections[k].page_number
        /\ walk_sections # << >> =>
              /\ sections = walk_sections
              /\ \A k \in DOMAIN sections : sections[k].type # "page_content"
        /\ TextPages(s_doc) # {} => sections # << >>

\* the fallback has produced a section for a page with text, after a walk
\* that emitted nothing although another page was blank
C8_Witness ==
    /\ s_pc = "done"
    /\ walk_sections = << >>
    /\ sections # << >>
    /\ Cardinality(TextPages(s_doc)) < Len(s_doc)

\* C9: when no span of the document is a header, every returned section is of
\* type content or page_content, and so is every section the walk holds.
C9_NoHeaderNoHeaderSection ==
    NoHeaderIn(s_doc) =>
        /\ \A k \in DOMAIN sections :
              sections[k].type \in {"content", "page_content"}
        /\ current_section # << >> =>
              current_section[1].type \in {"content", "page_content"}

\* a document of two pages without a header has returned a section
C9_Witness ==
    /\ s_pc = "done"
    /\ Len(s_doc) = 2
    /\ NoHeaderIn(s_doc)
    /\ sections # << >>
    /\ SpanCount(s_doc) >= 2

----------------------------------------------------------------------------
(* the chunker's properties *)

\* the chunks that doc_chunks holds for page p (1-based), in order
ChunksOfPage(p) ==
    LET sel == SelectSeq(doc_chunks, LAMBDA c : c.page_num = p)
    IN  [k \in DOMAIN sel |-> sel[k].chunk]

\* every word of a page of `words` words lies in one of the chunks
Covered(words, chunks) ==
    \A w \in 0..(words - 1) :
        \E k \in DOMAIN chunks : chunks[k].lo <= w /\ w < chunks[k].hi

\* consecutive chunks start exactly one stride apart
StrideApart(chunks) ==
    \A k \in 1..(Len(chunks) - 1) :
        chunks[k + 1].lo - chunks[k].lo = DefaultStride

\* C10 as stated: for a page of any number of words, the retained windows
\* cover every word index of the page and start exactly one stride apart.
C10_WindowsCoverEveryPage ==
    \A p \in DOMAIN c_doc :
        /\ Covered(c_doc[p], ChunksOfPage(p))
        /\ StrideApart(ChunksOfPage(p))

\* C10 as amended: for a page of more than 50 words, the retained windows
\* cover every word index of the page; a page of at most 50 words has no
\* retained window; the retained windows of any page start exactly one
\* stride apart.
C10_WindowsCoverLongPages ==
    \A p \in DOMAIN c_doc :
        /\ c_doc[p] > MinChunkWords => Covered(c_doc[p], ChunksOfPage(p))
        /\ c_doc[p] <= MinChunkWords => ChunksOfPage(p) = << >>
        /\ StrideApart(ChunksOfPage(p))

\* a page of more than 800 words whose third window is too short to be
\* retained, and a page of three retained windows
C10_Witness ==
    \/ /\ Len(c_doc) = 1 /\ c_doc[1] > 2 * DefaultStride
       /\ Len(doc_chunks) = 2
    \/ /\ Len(c_doc) = 2 /\ c_doc[1] = 0 /\ Len(ChunksOfPage(2)) = 3

\* this step appends a span that is not a header to the open section
AppendsSpan ==
    /\ s_pc = "blocks"
    /\ blk_i' = blk_i + 1
    /\ ~is_section_header(text_blocks[blk_i + 1].text)

\* the text accumulated in the open section, empty when none is open
OpenText == IF current_section = << >> THEN << >> ELSE current_section[1].text

\* C17: a span that is not a header is appended to the open section after a
\* single space exactly when the accumulated text is not empty and does not
\* end in whitespace; after the double line break of a page boundary it is
\* appended without a space.
C17_SpaceUnlessWhitespace ==
    [][AppendsSpan =>
          current_section'[1].text =
              (IF OpenText # << >> /\ ~IsSpaceChar(OpenText[Len(OpenText)])
               THEN OpenText \o <<" ">> ELSE OpenText)
                  \o text_blocks[blk_i + 1].text]_vars

----------------------------------------------------------------------------
(* the ranker's properties *)

\* rank_sections has returned
Ranked == r_pc \in {"ranked", "again"}

\* C2: every call of get_embeddings returns, for each of its input strings,
\* the vector the embedding boundary gives for that very string, never the
\* vector stored for another string.
C2_EmbeddingOfExactString ==
    \A c \in DOMAIN emb_calls :
        /\ Len(emb_calls[c].out) = Len(emb_calls[c].texts)
        /\ \A i \in DOMAIN emb_calls[c].texts :
              emb_calls[c].out[i] = ModelEncode(emb_calls[c].texts[i])

\* the place of candidate i in the order by relevance_score, descending, the
\* candidates of equal score in their input order
PlaceOf(i) ==
    1 + Cardinality({j \in DOMAIN rank_scored :
            \/ rank_scored[j].relevance_score > rank_scored[i].relevance_score
            \/ /\ rank_scored[j].relevance_score
                      = rank_scored[i].relevance_score
               /\ j < i})

\* C3: rank_sections returns the candidates, each with its scores, ordered by
\* relevance_score descending with equal scores in input order, and exactly
\* the first top_n of that order, or all of them when there are fewer.
C3_StableDescendingTopN ==
    Ranked =>
        /\ Len(rank_scored) = Len(rank_args[1].sections)
        /\ \A i \in DOMAIN rank_scored :
              \A f \in DOMAIN rank_args[1].sections[i] :
                  rank_scored[i][f] = rank_args[1].sections[i][f]
        /\ Len(rank_result) = Min(rank_args[1].top_n, Len(rank_scored))
        /\ \A i \in DOMAIN rank_scored :
              PlaceOf(i) <= rank_args[1].top_n =>
                  rank_result[PlaceOf(i)] = rank_scored[i]

\* two distinct candidates of equal score ranked with top_n = 1: the first of
\* the input is the one returned
C3_Witness ==
    /\ r_pc = "ranked"
    /\ rank_args[1].top_n = 1
    /\ Len(rank_scored) = 2
    /\ rank_scored[1] # rank_scored[2]
    /\ rank_scored[1].relevance_score = rank_scored[2].relevance_score
    /\ rank_result = <<rank_scored[1]>>

\* C4: for every section, with or without title and text, and every query
\* the boost factor lies between 1.0 and 2.5, both included.
C4_BoostWithinBounds ==
    Ranked =>
        /\ Len(rank_boosts) = Len(rank_args[1].sections)
        /\ \A i \in DOMAIN rank_boosts :
              /\ BoostScale <= rank_boosts[i]
              /\ rank_boosts[i] <= MaxBoost

\* a call that ranks a section at the cap next to a section without a title
C4_Witness ==
    /\ r_pc = "ranked"
    /\ \E i, j \in DOMAIN rank_boosts :
          /\ rank_boosts[i] = MaxBoost
          /\ "title" \notin DOMAIN rank_args[1].sections[j]

\* no keyword in the lowercased title, no day pattern and no location
\* indicator in the text
Unboosted(section) ==
    /\ "title" \in DOMAIN section =>
          \A k \in DOMAIN travel_keywords :
              ~Contains(travel_keywords[k], Lower(section.title))
    /\ "text" \in DOMAIN section =>
          /\ ~MatchesDayPattern(section.text)
          /\ \A k \in DOMAIN location_indicators :
                ~Contains(location_indicators[k], Lower(section.text))

\* C5: a section whose title holds no keyword and whose text matches neither
\* the day pattern nor a location indicator is reported with a
\* relevance_score equal to its base_score.
C5_UnboostedScoreIsBase ==
    Ranked =>
        \A i \in DOMAIN rank_scored :
            Unboosted(rank_args[1].sections[i]) =>
                rank_scored[i].relevance_score = rank_scored[i].base_score

\* an unboosted section has been ranked with a base score that is not zero
C5_Witness ==
    /\ r_pc = "ranked"
    /\ \E i \in DOMAIN rank_scored :
          /\ Unboosted(rank_args[1].sections[i])
          /\ "title" \in DOMAIN rank_args[1].sections[i]
          /\ rank_scored[i].base_score # 0

\* C6: the second call of rank_sections with the arguments of the first
\* returns the same list, and gives every candidate the same relevance_score,
\* base_score and boost_factor.
C6_RankingIdempotent ==
    r_pc = "again" =>
        /\ rank_result = rank_first[1].result
        /\ rank_scored = rank_first[1].scored

\* a call of rank_sections returns in this step with an empty candidate list
RanksNothing ==
    /\ r_pc' \in {"ranked", "again"}
    /\ r_pc' # r_pc
    /\ rank_args'[1].sections = << >>

\* C14: a call of rank_sections with an empty candidate list returns the empty
\* list, makes no call of get_embeddings, so hands nothing to the embedding
\* boundary, and leaves the embedding cache as it was.
C14_EmptyCandidatesNoEmbedding ==
    [][RanksNothing =>
          /\ rank_result' = << >>
          /\ emb_calls' = << >>
          /\ embedding_cache' = embedding_cache]_vars

\* an analyzer whose cache holds entries has ranked the empty list
C14_Witness ==
    /\ r_pc = "ranked"
    /\ rank_args[1].sections = << >>
    /\ rank_result = << >>
    /\ DOMAIN embedding_cache # {}

\* 1.2 to the power n, as a boost
RECURSIVE PowerOfKeywordFactor(_)
PowerOfKeywordFactor(n) ==
    IF n = 0 THEN BoostScale ELSE Times(PowerOfKeywordFactor(n - 1), 120)

\* how many distinct keywords occur in the lowercased title of a section
DistinctKeywordHits(section) ==
    IF "title" \in DOMAIN section
    THEN Cardinality({kw \in Range(travel_keywords) :
                         Contains(kw, Lower(section.title))})
    ELSE 0

\* the boost of a section whose title contributes the factor given: the two
\* factors of the text, then the cap
BoostFromTitleFactor(section, factor) ==
    LET b2 == IF "text" \in DOMAIN section /\ MatchesDayPattern(section.text)
              THEN Times(factor, 130) ELSE factor
        b3 == IF /\ "text" \in DOMAIN section
                 /\ \E k \in DOMAIN location_indicators :
                       Contains(location_indicators[k], Lower(section.text))
              THEN Times(b2, 115) ELSE b2
    IN  Min(b3, MaxBoost)

\* C16: the title contributes to the boost of every ranked section the factor
\* 1.2 to the power of the number of distinct keywords that occur in its
\* lowercased title: 1.2 for one keyword, 1.0 for none.
C16_TitleFactorPerDistinctKeyword ==
    Ranked =>
        \A i \in DOMAIN rank_boosts :
            rank_boosts[i] =
                BoostFromTitleFactor(
                    rank_args[1].sections[i],
                    PowerOfKeywordFactor(
                        DistinctKeywordHits(rank_args[1].sections[i])))

\* the strings handed to the embedding boundary by a list of get_embeddings
\* calls, one after the other
RECURSIVE EncodedTexts(_)
EncodedTexts(calls) ==
    IF calls = << >> THEN << >>
    ELSE Flatten(Head(calls).encoded) \o EncodedTexts(Tail(calls))

\* C18: the embedding boundary is asked for any string at most once, within
\* one call's input list as well as from one operation to the next, and an
\* entry of the cache, once stored, is neither removed nor changed.
C18_EachStringEmbeddedOnce ==
    [][/\ \A i, j \in DOMAIN EncodedTexts(emb_calls') :
              EncodedTexts(emb_calls')[i] = EncodedTexts(emb_calls')[j]
                  => i = j
       /\ Range(EncodedTexts(emb_calls))
              \cap Range(EncodedTexts(emb_calls')) = {}
       /\ \A k \in DOMAIN embedding_cache :
              /\ k \in DOMAIN embedding_cache'
              /\ embedding_cache'[k] = embedding_cache[k]]_vars

----------------------------------------------------------------------------
(* the pipelines' properties *)

\* the sections (or chunks) the first n documents of a list hold, those of
\* the documents that cannot be opened or parsed left out
UsableUnits(docs, n) ==
    Flatten(List([i \in 1..n |->
                IF Raises(docs[i]) THEN << >> ELSE UnitsOf(docs[i])]))

\* C11: a run of main or of process_documents whose documents hold no usable
\* section or chunk ends in failure, with an error for the caller and no
\* summary.json; a summary.json written holds a ranked result that is not
\* empty.
C11_EmptyCorpusFails ==
    (p_entry \in {"main", "process_documents"} /\ p_pc \in {"done", "failed"})
        => /\ UsableUnits(documents, Len(documents)) = << >>
                  => (p_pc = "failed" /\ p_error # << >> /\ summary = << >>)
           /\ summary # << >> => summary[1].extracted_sections # << >>

\* C12: in the per-document loops of process_input_json and of
\* extract_sections_from_pdfs a document that fails to open or parse adds
\* nothing, the sections of the documents before it stay, in order, those of
\* the documents after it are added, the loop reaches the end of the list,
\* and the run fails only for want of any section.
C12_FailedDocumentSkipped ==
    p_entry \in {"main", "extract_sections_from_pdfs"} =>
        /\ all_sections = UsableUnits(pdf_files, p_i)
        /\ p_pc \in {"done", "failed"} => p_i = Len(pdf_files)
        /\ p_pc = "failed" => all_sections = << >>
        /\ \A i \in 1..p_i :
              Raises(pdf_files[i]) =>
                  \E w \in DOMAIN p_warnings :
                      p_warnings[w] = pdf_files[i].filename

\* a run is done whose second document failed between two that gave sections
C12_Witness ==
    /\ p_pc = "done"
    /\ p_entry \in {"main", "extract_sections_from_pdfs"}
    /\ Len(pdf_files) = 3
    /\ pdf_files[1].kind = "two"
    /\ pdf_files[2].kind = "broken"
    /\ pdf_files[3].kind = "one"
    /\ Len(all_sections) = 3

----------------------------------------------------------------------------
(* the worker pool's properties *)

\* the batch of path k when the list is cut into consecutive batches of four
BatchOf(k) == (k - 1) \div PoolCap

\* C15: preprocess_pdfs works through consecutive batches of at most four
\* paths with at most four workers: never are more than four paths in
\* flight, a path is taken only when every path of the batches before its own
\* has been taken and is back, no path is taken twice, and at the return
\* every path has been taken and all_chunks holds the chunks of the paths in
\* the order of the paths.
C15_BoundedOrderedBatches ==
    /\ Cardinality(in_flight) <= PoolCap
    /\ num_processes <= PoolCap
    /\ Len(chunk_paths) <= PoolCap
    /\ \A i \in DOMAIN started : \A k \in 1..pdf_paths :
          BatchOf(k) < BatchOf(started[i]) =>
              (k \in Range(started) /\ k \notin in_flight)
    /\ \A i, j \in DOMAIN started : started[i] = started[j] => i = j
    /\ w_pc = "done" =>
          /\ Range(started) = 1..pdf_paths
          /\ all_chunks =
                Flatten(List([k \in 1..pdf_paths |-> ChunksOfPath(k)]))

\* a call with more than four paths and four workers has returned
C15_Witness ==
    /\ w_pc = "done"
    /\ pdf_paths > PoolCap
    /\ num_processes = PoolCap
    /\ Len(started) = pdf_paths

----------------------------------------------------------------------------
(* the shared analyzer's properties *)

\* a caller that has returned holds, for each of its strings, the vector the
\* embedding boundary assigns to that string
ReceivedRight(c) ==
    threads[c].pc = "done" =>
        /\ Len(threads[c].embeddings) = Len(threads[c].texts)
        /\ \A i \in DOMAIN threads[c].texts :
              threads[c].embeddings[i] = ModelEncode(threads[c].texts[i])

\* a step leaves every stored entry of every cache with the value it had
OverwritesEqual ==
    \A a \in DOMAIN analyzers : \A k \in DOMAIN analyzers[a] :
        analyzers'[a][k] = analyzers[a][k]

\* C13: when get_embeddings calls interleave on the shared cache, every
\* caller receives for each of its strings the vector of the embedding
\* boundary, and a stored entry is only ever overwritten with an equal value.
C13_InterleavedCallsKeepVectors ==
    [][OverwritesEqual /\ \A c \in Callers : ReceivedRight(c)']_vars

============================================================================
